---- MODULE Spec2Model ----
(***************************************************************************)
(* Model of the data-preparation pipeline of ecommerce_analysis:           *)
(*   scripts/advanced_data_preparation.py            (Olist, four tables)  *)
(*   scripts/advanced_data_preparation_online_retail.py (invoice table)    *)
(* Both scripts build one fact frame with one row per order line, compute  *)
(* the same four aggregates from it with the same pandas calls and write   *)
(* them to ecommerce_advanced.db with to_sql(if_exists='replace').         *)
(*                                                                         *)
(* A frame is a sequence of records.  Money is counted in whole units, so  *)
(* sums are exact; a float cell is a record Float (a reduced fraction, an  *)
(* infinity or NaN).  Timestamps are ticks of an abstract calendar with    *)
(* TicksPerDay ticks a day and DaysPerMonth days a month.                  *)
(***************************************************************************)
EXTENDS Integers, Sequences, FiniteSets

VARIABLES
    full_data,            \* the merged fact frame (df in the invoice script)
    monthly_revenue,      \* the four in-memory aggregates
    order_values,
    customer_features,
    product_performance,
    db,                   \* ecommerce_advanced.db: table name -> table
    pc,                   \* position of the running script
    runs,                 \* completed runs of the script
    first_run,            \* history: db as the first completed run left it
    sources,              \* the CSV files the Olist script reads
    failed_at,            \* history: where the last failed run stopped
    procs,                \* the runs that execute concurrently
    orders_table          \* the orders table of ecommerce.db

\* the state outside a single run of the script over a merged frame
others == <<sources, failed_at, procs, orders_table>>

vars == <<full_data, monthly_revenue, order_values, customer_features,
          product_performance, db, pc, runs, first_run, others>>

(***************************************************************************)
(* Bounds of the model                                                     *)
(***************************************************************************)
MaxRows == 3
MaxRuns == 2
TicksPerDay == 2
DaysPerMonth == 2

(***************************************************************************)
(* Missing values                                                          *)
(***************************************************************************)
\* pd.NaT, what to_datetime(errors='coerce') and an unmatched left join
\* leave in the timestamp column
NaT == -1
\* a missing key (NaN in customer_id / product_category_name)
NoKey == 0

MonthsPerYear == 12

\* float cells: a reduced fraction num/den (den > 0), +-inf, or NaN
NaN == [kind |-> "nan", num |-> 0, den |-> 0]
Inf(sign) == [kind |-> "inf", num |-> sign, den |-> 0]
SqlNull == [kind |-> "null", num |-> 0, den |-> 0]

Abs(x) == IF x < 0 THEN -x ELSE x

RECURSIVE Gcd(_, _)
Gcd(a, b) == IF b = 0 THEN a ELSE Gcd(b, a % b)

\* the float n/d for d # 0, in lowest terms with a positive denominator
Rat(n, d) ==
    LET g == Gcd(Abs(n), Abs(d))
        s == IF d < 0 THEN -1 ELSE 1
    IN  [kind |-> "num", num |-> s * (n \div g), den |-> s * (d \div g)]

Sign(x) == IF x < 0 THEN -1 ELSE 1

\* IEEE division of two finite numbers given as integers
FDiv(a, b) ==
    IF b = 0 THEN (IF a = 0 THEN NaN ELSE Inf(Sign(a)))
    ELSE Rat(a, b)

\* x - k for an integer k
FSubInt(x, k) ==
    IF x.kind = "num" THEN Rat(x.num - k * x.den, x.den) ELSE x

\* x * k for an integer k > 0
FMulInt(x, k) ==
    IF x.kind = "num" THEN Rat(x.num * k, x.den) ELSE x

(***************************************************************************)
(* Helpers on finite sets and frames                                       *)
(***************************************************************************)
SetMin(S) == CHOOSE x \in S : \A y \in S : x <= y

\* the elements of a finite set of integers in ascending order
RECURSIVE SortedSeq(_)
SortedSeq(S) ==
    IF S = {} THEN <<>>
    ELSE LET m == SetMin(S) IN <<m>> \o SortedSeq(S \ {m})

\* sum of column col over the rows of df whose index is in I
RECURSIVE SumOver(_, _, _)
SumOver(df, col, I) ==
    IF I = {} THEN 0
    ELSE LET i == CHOOSE j \in I : TRUE
         IN  df[i][col] + SumOver(df, col, I \ {i})

\* Series.sum() of a whole column
ColumnSum(df, col) == SumOver(df, col, DOMAIN df)

\* the row indices of the group of key k; a missing key matches no group
GroupRows(df, by, k) == {i \in DOMAIN df : df[i][by] = k}

\* df.groupby(by): the group keys, sorted; rows with a missing key are dropped
GroupKeys(df, by, missing) ==
    SortedSeq({df[i][by] : i \in DOMAIN df} \ {missing})

\* df.groupby(by)[col].sum().reset_index()
GroupSum(df, by, missing, col) ==
    LET keys == GroupKeys(df, by, missing)
    IN  [n \in 1..Len(keys) |->
            [key |-> keys[n], value |-> SumOver(df, col, GroupRows(df, by, keys[n]))]]

\* df.groupby(by)[col].nunique().reset_index()
GroupNUnique(df, by, missing, col) ==
    LET keys == GroupKeys(df, by, missing)
    IN  [n \in 1..Len(keys) |->
            [key |-> keys[n],
             value |-> Cardinality({df[i][col] : i \in GroupRows(df, by, keys[n])}
                                   \ {NoKey})]]

\* the rows of frame r whose key is k, in order
Matches(r, k) == SelectSeq(r, LAMBDA x : x.key = k)

\* the concatenation of a sequence of sequences
RECURSIVE Flatten(_)
Flatten(ss) == IF ss = <<>> THEN <<>> ELSE Head(ss) \o Flatten(Tail(ss))

\* pd.merge(l, r, on=key) (an inner join): every left row with every right
\* row of the same key, in left order, as pairs <<left row, right row>>
InnerMerge(l, r) ==
    Flatten([i \in DOMAIN l |->
                LET m == Matches(r, l[i].key)
                IN  [j \in 1..Len(m) |-> <<l[i], m[j]>>]])

(***************************************************************************)
(* Revenue metrics                                                         *)
(***************************************************************************)
TicksPerMonth == TicksPerDay * DaysPerMonth

\* Series.dt.to_period('M'): the month ordinal of a timestamp, NaT for NaT
ToPeriodM(t) == IF t = NaT THEN NaT ELSE t \div TicksPerMonth

\* Period.astype(str): "YYYY-MM" as <<year, month of the year>>
PeriodStr(m) == <<m \div MonthsPerYear, (m % MonthsPerYear) + 1>>

\* full_data['order_month'] = full_data['order_purchase_timestamp'].dt.to_period('M')
WithOrderMonth(df) ==
    [i \in DOMAIN df |->
        [order_id |-> df[i].order_id,
         customer_id |-> df[i].customer_id,
         product_category_name |-> df[i].product_category_name,
         order_purchase_timestamp |-> df[i].order_purchase_timestamp,
         price |-> df[i].price,
         order_month |-> ToPeriodM(df[i].order_purchase_timestamp)]]

\* mutant of PctChange: the change is taken relative to the current cell
PctChangeOfCurrent(s) ==
    [i \in DOMAIN s |->
        IF i = 1 THEN NaN ELSE FSubInt(FDiv(s[i], s[i]), 1)]

\* mutant of PctChange: the first cell is filled with 0
PctChangeFillZero(s) ==
    [i \in DOMAIN s |->
        IF i = 1 THEN Rat(0, 1) ELSE FSubInt(FDiv(s[i], s[i - 1]), 1)]

\* Series.pct_change(): s / s.shift(1) - 1; the first cell has no
\* predecessor and is NaN
PctChange(s) ==
    [i \in DOMAIN s |->
        IF i = 1 THEN NaN ELSE FSubInt(FDiv(s[i], s[i - 1]), 1)]

\* monthly_revenue: groupby month, sum price, month as text, growth rate in %
MonthlyRevenue(df) ==
    LET g == GroupSum(WithOrderMonth(df), "order_month", NaT, "price")
        pct == PctChange([i \in DOMAIN g |-> g[i].value])
    IN  [i \in DOMAIN g |->
            [order_month |-> PeriodStr(g[i].key),
             total_revenue |-> g[i].value,
             revenue_growth_rate |-> FMulInt(pct[i], 100)]]

(***************************************************************************)
(* Average order value                                                     *)
(***************************************************************************)
\* mutant of OrderValues: count() of the lines instead of sum() of the prices
OrderValuesCount(df) ==
    LET keys == GroupKeys(df, "order_id", NoKey)
    IN  [n \in 1..Len(keys) |->
            [order_id |-> keys[n],
             order_value |-> Cardinality(GroupRows(df, "order_id", keys[n]))]]

\* order_values: groupby order_id, sum price
OrderValues(df) ==
    LET g == GroupSum(df, "order_id", NoKey, "price")
    IN  [i \in DOMAIN g |-> [order_id |-> g[i].key, order_value |-> g[i].value]]

(***************************************************************************)
(* Customer segmentation features                                          *)
(***************************************************************************)
SetMax(S) == CHOOSE x \in S : \A y \in S : y <= x

\* Series.max() of timestamps: NaT cells are skipped, NaT when none is left
TimestampMax(S) == IF S \ {NaT} = {} THEN NaT ELSE SetMax(S \ {NaT})

\* reference_date = full_data['order_purchase_timestamp'].max()
ReferenceDate(df) ==
    TimestampMax({df[i].order_purchase_timestamp : i \in DOMAIN df})

\* mutant of TimedeltaDays: days rounded up
TimedeltaDaysCeil(a, b) ==
    IF a = NaT \/ b = NaT THEN NaN
    ELSE Rat((a - b + TicksPerDay - 1) \div TicksPerDay, 1)

\* (a - b).dt.days: whole days of a timedelta, NaN when it is NaT
TimedeltaDays(a, b) ==
    IF a = NaT \/ b = NaT THEN NaN ELSE Rat((a - b) \div TicksPerDay, 1)

CustomerSpending(df) == GroupSum(df, "customer_id", NoKey, "price")

\* mutant of CustomerOrders: count() of the lines instead of nunique()
CustomerOrdersCount(df) ==
    LET keys == GroupKeys(df, "customer_id", NoKey)
    IN  [n \in 1..Len(keys) |->
            [key |-> keys[n],
             value |-> Cardinality(GroupRows(df, "customer_id", keys[n]))]]

CustomerOrders(df) == GroupNUnique(df, "customer_id", NoKey, "order_id")

\* groupby customer, max timestamp, recency against the reference date
CustomerLastOrder(df) ==
    LET keys == GroupKeys(df, "customer_id", NoKey)
        last(k) == TimestampMax({df[i].order_purchase_timestamp :
                                    i \in GroupRows(df, "customer_id", k)})
    IN  [n \in 1..Len(keys) |->
            [key |-> keys[n],
             last_order_date |-> last(keys[n]),
             value |-> TimedeltaDays(ReferenceDate(df), last(keys[n]))]]

\* customer_features: the three per-customer frames merged on customer_id
CustomerFeatures(df) ==
    LET m1 == InnerMerge(CustomerSpending(df), CustomerOrders(df))
        so == [i \in DOMAIN m1 |->
                 [key |-> m1[i][1].key, total_spent |-> m1[i][1].value,
                  order_frequency |-> m1[i][2].value]]
        m2 == InnerMerge(so, CustomerLastOrder(df))
    IN  [i \in DOMAIN m2 |->
            [customer_id |-> m2[i][1].key,
             total_spent |-> m2[i][1].total_spent,
             order_frequency |-> m2[i][1].order_frequency,
             recency_days |-> m2[i][2].value]]

(***************************************************************************)
(* Product performance                                                     *)
(***************************************************************************)
ProductSales(df) == GroupSum(df, "product_category_name", NoKey, "price")

\* mutant of OrdersPerCategory: count() of the lines instead of nunique()
OrdersPerCategoryCount(df) ==
    LET keys == GroupKeys(df, "product_category_name", NoKey)
    IN  [n \in 1..Len(keys) |->
            [key |-> keys[n],
             value |-> Cardinality(GroupRows(df, "product_category_name", keys[n]))]]

OrdersPerCategory(df) ==
    GroupNUnique(df, "product_category_name", NoKey, "order_id")

\* product_performance: sales and distinct orders per category, merged
ProductPerformance(df) ==
    LET m == InnerMerge(ProductSales(df), OrdersPerCategory(df))
    IN  [i \in DOMAIN m |->
            [product_category_name |-> m[i][1].key,
             total_sales |-> m[i][1].value,
             order_count |-> m[i][2].value]]

(***************************************************************************)
(* The SQLite store                                                        *)
(***************************************************************************)
TableNames == {"monthly_revenue", "order_values", "customer_features",
               "product_performance"}

\* a table that does not exist yet
NoTable == [exists |-> FALSE, rows |-> <<>>]

\* sqlite3 binding of a float cell: NaN is stored as NULL
SqlCell(x) == IF x.kind = "nan" THEN SqlNull ELSE x

SqlMonthlyRevenue(frame) ==
    [i \in DOMAIN frame |->
        [order_month |-> frame[i].order_month,
         total_revenue |-> frame[i].total_revenue,
         revenue_growth_rate |-> SqlCell(frame[i].revenue_growth_rate)]]

SqlCustomerFeatures(frame) ==
    [i \in DOMAIN frame |->
        [customer_id |-> frame[i].customer_id,
         total_spent |-> frame[i].total_spent,
         order_frequency |-> frame[i].order_frequency,
         recency_days |-> SqlCell(frame[i].recency_days)]]

\* mutant of ToSql: if_exists='append'
ToSqlAppend(old, rows) == [exists |-> TRUE, rows |-> old.rows \o rows]

\* DataFrame.to_sql(name, conn, if_exists='replace', index=False): the table
\* is dropped if it exists and created anew with the frame's rows
ToSql(old, rows) == [exists |-> TRUE, rows |-> rows]

(***************************************************************************)
(* Inputs: bounded fact frames                                             *)
(***************************************************************************)
Row(o, c, k, t, p) ==
    [order_id |-> o, customer_id |-> c, product_category_name |-> k,
     order_purchase_timestamp |-> t, price |-> p]

\* the timestamp of tick k of day d of month ordinal m
Stamp(m, d, k) == (m * DaysPerMonth + d) * TicksPerDay + k

\* lines over three consecutive months (a December, a January, a February)
\* and lines without a timestamp, free or of price 1, so that a month's
\* revenue is 0 or a sum of several lines
RevenueRows ==
    {Row(1, 1, 1, t, p) :
        t \in {NaT, Stamp(11, 0, 0), Stamp(12, 0, 0), Stamp(13, 0, 0)},
        p \in {0, 1}}

\* lines of customers (or of none) less than a day and a day apart, or
\* without a timestamp
RecencyRows ==
    {Row(1, c, 1, t, 1) :
        c \in {NoKey, 1, 2},
        t \in {NaT, Stamp(11, 0, 0), Stamp(11, 0, 1), Stamp(11, 1, 0)}}

\* lines of two customers over two orders
CustomerRows ==
    {Row(o, c, 1, Stamp(11, 0, 0), p) : o \in {1, 2}, c \in {1, 2}, p \in {1, 2}}

\* lines of two products over two orders
ProductRows ==
    {Row(o, 1, k, Stamp(11, 0, 0), p) : o \in {1, 2}, k \in {1, 2}, p \in {1, 2}}

Families == {RevenueRows, RecencyRows, CustomerRows, ProductRows}

\* the frames of at most MaxRows rows drawn from one family
Frames == UNION {UNION {[1..n -> F] : n \in 0..MaxRows} : F \in Families}

(***************************************************************************)
(* The script, run to completion, and run again                            *)
(***************************************************************************)
Init ==
    /\ full_data \in Frames
    /\ monthly_revenue = <<>>
    /\ order_values = <<>>
    /\ customer_features = <<>>
    /\ product_performance = <<>>
    /\ db = [t \in TableNames |-> NoTable]
    /\ pc = "merged"
    /\ runs = 0
    /\ first_run = [t \in TableNames |-> NoTable]
    /\ sources = <<>>
    /\ failed_at = ""
    /\ procs = <<>>
    /\ orders_table = <<>>

\* the four aggregates, computed one after the other from full_data
ComputeMetrics ==
    /\ pc = "merged"
    /\ monthly_revenue' = MonthlyRevenue(full_data)
    /\ order_values' = OrderValues(full_data)
    /\ customer_features' = CustomerFeatures(full_data)
    /\ product_performance' = ProductPerformance(full_data)
    /\ pc' = "computed"
    /\ UNCHANGED <<full_data, db, runs, first_run, others>>

WriteMonthlyRevenue ==
    /\ pc = "computed"
    /\ db' = [db EXCEPT !["monthly_revenue"] =
                 ToSql(@, SqlMonthlyRevenue(monthly_revenue))]
    /\ pc' = "wrote_monthly_revenue"
    /\ UNCHANGED <<full_data, monthly_revenue, order_values, customer_features,
                   product_performance, runs, first_run, others>>

WriteOrderValues ==
    /\ pc = "wrote_monthly_revenue"
    /\ db' = [db EXCEPT !["order_values"] = ToSql(@, order_values)]
    /\ pc' = "wrote_order_values"
    /\ UNCHANGED <<full_data, monthly_revenue, order_values, customer_features,
                   product_performance, runs, first_run, others>>

WriteCustomerFeatures ==
    /\ pc = "wrote_order_values"
    /\ db' = [db EXCEPT !["customer_features"] =
                 ToSql(@, SqlCustomerFeatures(customer_features))]
    /\ pc' = "wrote_customer_features"
    /\ UNCHANGED <<full_data, monthly_revenue, order_values, customer_features,
                   product_performance, runs, first_run, others>>

WriteProductPerformance ==
    /\ pc = "wrote_customer_features"
    /\ db' = [db EXCEPT !["product_performance"] = ToSql(@, product_performance)]
    /\ pc' = "wrote_product_performance"
    /\ UNCHANGED <<full_data, monthly_revenue, order_values, customer_features,
                   product_performance, runs, first_run, others>>

\* conn.close(): the run is complete
Close ==
    /\ pc = "wrote_product_performance"
    /\ pc' = "done"
    /\ runs' = runs + 1
    /\ first_run' = IF runs = 0 THEN db ELSE first_run
    /\ UNCHANGED <<full_data, monthly_revenue, order_values, customer_features,
                   product_performance, db, others>>

\* the script is started again on the same files: a fresh process reads and
\* merges them into the same frame; only the store survives
Rerun ==
    /\ pc = "done"
    /\ runs < MaxRuns
    /\ monthly_revenue' = <<>>
    /\ order_values' = <<>>
    /\ customer_features' = <<>>
    /\ product_performance' = <<>>
    /\ pc' = "merged"
    /\ UNCHANGED <<full_data, db, runs, first_run, others>>

Next ==
    \/ ComputeMetrics
    \/ WriteMonthlyRevenue
    \/ WriteOrderValues
    \/ WriteCustomerFeatures
    \/ WriteProductPerformance
    \/ Close
    \/ Rerun

Spec == Init /\ [][Next]_vars

(***************************************************************************)
(* Properties                                                              *)
(***************************************************************************)
\* the aggregates of the current run are in memory
Computed == pc # "merged"

\* the fact rows of customer c, of product key k, of order o
RowsOfCustomer(c) == {i \in DOMAIN full_data : full_data[i].customer_id = c}
RowsOfProduct(k) == {i \in DOMAIN full_data : full_data[i].product_category_name = k}
RowsOfOrder(o) == {i \in DOMAIN full_data : full_data[i].order_id = o}

CustomersOfFact == {full_data[i].customer_id : i \in DOMAIN full_data} \ {NoKey}
ProductsOfFact == {full_data[i].product_category_name : i \in DOMAIN full_data} \ {NoKey}
OrdersOfFact == {full_data[i].order_id : i \in DOMAIN full_data}
MonthsOfFact ==
    {full_data[i].order_purchase_timestamp \div TicksPerMonth :
        i \in {j \in DOMAIN full_data : full_data[j].order_purchase_timestamp # NaT}}

\* "YYYY-MM" texts compare by year, then by month
MonthBefore(a, b) == a[1] < b[1] \/ (a[1] = b[1] /\ a[2] < b[2])

\* the latest timestamp of a set of fact rows; NaT when they have none
LatestOf(I) ==
    LET ts == {full_data[i].order_purchase_timestamp : i \in I} \ {NaT}
    IN  IF ts = {} THEN NaT ELSE CHOOSE t \in ts : \A u \in ts : u <= t

\* C1: for every non-empty fact table, also one with lines whose purchase
\* timestamp is missing, the total_revenue of all months adds up to the
\* price of all fact rows.
C1_RevenueConserved ==
    (Computed /\ full_data # <<>>) =>
        ColumnSum(monthly_revenue, "total_revenue") = ColumnSum(full_data, "price")

\* C2: monthly_revenue has exactly one row per month of the fact table, in
\* strictly ascending month order, no month of the fact table lies between
\* two neighbouring rows, and a row after a row of revenue v1 > 0 has
\* revenue_growth_rate = (revenue - v1) / v1 * 100.
C2_GrowthRate ==
    Computed =>
        LET mr == monthly_revenue
        IN  /\ Len(mr) = Cardinality(MonthsOfFact)
            /\ {mr[i].order_month : i \in DOMAIN mr}
                  = {<<m \div MonthsPerYear, (m % MonthsPerYear) + 1>> : m \in MonthsOfFact}
            /\ \A i \in 2..Len(mr) :
                  /\ MonthBefore(mr[i - 1].order_month, mr[i].order_month)
                  /\ \A j \in DOMAIN mr :
                        ~ (/\ MonthBefore(mr[i - 1].order_month, mr[j].order_month)
                           /\ MonthBefore(mr[j].order_month, mr[i].order_month))
                  /\ mr[i - 1].total_revenue > 0 =>
                        LET g == mr[i].revenue_growth_rate
                            v1 == mr[i - 1].total_revenue
                        IN  /\ g.kind = "num"
                            /\ g.num * v1 = (mr[i].total_revenue - v1) * 100 * g.den

\* a December of revenue 1 followed by a January of revenue 2: growth 100 %
C2_Witness ==
    /\ Computed
    /\ Len(monthly_revenue) = 2
    /\ monthly_revenue[1].order_month = <<0, 12>>
    /\ monthly_revenue[1].total_revenue = 1
    /\ monthly_revenue[2].order_month = <<1, 1>>
    /\ monthly_revenue[2].total_revenue = 2
    /\ monthly_revenue[2].revenue_growth_rate = [kind |-> "num", num |-> 100, den |-> 1]

\* C3: the revenue_growth_rate of the first month is the undefined sentinel
\* (NaN in the frame, NULL in the stored table) and never the number 0,
\* whatever the month's revenue.
C3_FirstMonthUndefined ==
    /\ (Computed /\ monthly_revenue # <<>>) =>
            monthly_revenue[1].revenue_growth_rate = NaN
    /\ (db["monthly_revenue"].exists /\ db["monthly_revenue"].rows # <<>>) =>
            db["monthly_revenue"].rows[1].revenue_growth_rate = SqlNull

\* a stored table of two months whose first month has revenue 0
C3_Witness ==
    /\ db["monthly_revenue"].exists
    /\ Len(db["monthly_revenue"].rows) = 2
    /\ db["monthly_revenue"].rows[1].total_revenue = 0
    /\ db["monthly_revenue"].rows[1].revenue_growth_rate = SqlNull
    /\ db["monthly_revenue"].rows[2].total_revenue = 0

\* C4: a row of monthly_revenue whose preceding row has total_revenue 0 has
\* the undefined sentinel as revenue_growth_rate, never an infinite value,
\* whether its own revenue is 0 or positive.
C4_ZeroPriorUndefined ==
    Computed =>
        \A i \in 2..Len(monthly_revenue) :
            monthly_revenue[i - 1].total_revenue = 0 =>
                monthly_revenue[i].revenue_growth_rate = NaN

\* C5: every customer id of the fact table has exactly one row in
\* customer_features, whose order_frequency is the number of distinct order
\* ids of the customer's lines and whose total_spent is the sum of their
\* prices.
C5_CustomerFrequency ==
    Computed =>
        /\ \A c \in CustomersOfFact :
              \E i \in DOMAIN customer_features :
                  /\ customer_features[i].customer_id = c
                  /\ \A j \in DOMAIN customer_features :
                        customer_features[j].customer_id = c => j = i
                  /\ customer_features[i].order_frequency
                        = Cardinality({full_data[r].order_id : r \in RowsOfCustomer(c)})
                  /\ customer_features[i].total_spent
                        = SumOver(full_data, "price", RowsOfCustomer(c))
        /\ \A i \in DOMAIN customer_features :
              customer_features[i].customer_id \in CustomersOfFact

\* a customer with three lines in two orders has order_frequency 2
C5_Witness ==
    /\ Computed
    /\ Len(full_data) = 3
    /\ \A i \in DOMAIN full_data : full_data[i].customer_id = 1
    /\ Len(customer_features) = 1
    /\ customer_features[1].order_frequency = 2
    /\ customer_features[1].total_spent = 5

\* C6: every row of customer_features has an integer recency_days >= 0, the
\* whole days between the latest purchase timestamp of the fact table and
\* the customer's own latest one, also for a customer whose purchase
\* timestamps are all missing; the customer holding the global maximum has 0.
C6_RecencyWholeDays ==
    Computed =>
        \A i \in DOMAIN customer_features :
            LET r == customer_features[i].recency_days
                last == LatestOf(RowsOfCustomer(customer_features[i].customer_id))
                ref == LatestOf(DOMAIN full_data)
            IN  /\ r.kind = "num"
                /\ r.den = 1
                /\ r.num >= 0
                /\ (last # NaT /\ ref # NaT) => r.num = (ref - last) \div TicksPerDay
                /\ (last # NaT /\ last = ref) => r.num = 0

\* C7 as stated, on fact tables whose lines all have a customer id and a
\* purchase timestamp: exactly one customer has recency_days = 0.
C7_ExactlyOneZero ==
    (/\ Computed
     /\ full_data # <<>>
     /\ \A i \in DOMAIN full_data :
           /\ full_data[i].customer_id # NoKey
           /\ full_data[i].order_purchase_timestamp # NaT) =>
        Cardinality({i \in DOMAIN customer_features :
                        customer_features[i].recency_days = Rat(0, 1)}) = 1

\* C7, amended: a customer has recency_days = 0 exactly when its latest
\* purchase timestamp is less than one whole day before the latest of the
\* fact table; a customer holding the latest timestamp is one of them, and
\* there can be several.
C7_ZeroWithinADay ==
    Computed =>
        LET ref == LatestOf(DOMAIN full_data)
        IN  /\ \A i \in DOMAIN customer_features :
                  LET last == LatestOf(RowsOfCustomer(customer_features[i].customer_id))
                  IN  (customer_features[i].recency_days = Rat(0, 1))
                        <=> (last # NaT /\ ref - last < TicksPerDay)
            /\ \A c \in CustomersOfFact :
                  (ref # NaT /\ LatestOf(RowsOfCustomer(c)) = ref) =>
                      \E i \in DOMAIN customer_features :
                          /\ customer_features[i].customer_id = c
                          /\ customer_features[i].recency_days = Rat(0, 1)

\* two customers whose latest purchases are at different times of the same
\* day both have recency_days = 0
C7_Witness ==
    /\ Computed
    /\ Len(customer_features) = 2
    /\ customer_features[1].recency_days = Rat(0, 1)
    /\ customer_features[2].recency_days = Rat(0, 1)
    /\ LatestOf(RowsOfCustomer(1)) # LatestOf(RowsOfCustomer(2))

\* C8: every product key of the fact table has exactly one row in
\* product_performance, whose order_count is the number of distinct order
\* ids with that key and whose total_sales is the sum of the prices of its
\* lines; two lines of one product in one order count as one order.
C8_ProductPerformance ==
    Computed =>
        /\ \A k \in ProductsOfFact :
              \E i \in DOMAIN product_performance :
                  /\ product_performance[i].product_category_name = k
                  /\ \A j \in DOMAIN product_performance :
                        product_performance[j].product_category_name = k => j = i
                  /\ product_performance[i].order_count
                        = Cardinality({full_data[r].order_id : r \in RowsOfProduct(k)})
                  /\ product_performance[i].total_sales
                        = SumOver(full_data, "price", RowsOfProduct(k))
        /\ \A i \in DOMAIN product_performance :
              product_performance[i].product_category_name \in ProductsOfFact

\* one product twice in the same order: order_count 1, total_sales 1 + 2
C8_Witness ==
    /\ Computed
    /\ Len(full_data) = 2
    /\ full_data[1].order_id = full_data[2].order_id
    /\ full_data[1].product_category_name = full_data[2].product_category_name
    /\ full_data[1].price = 1
    /\ full_data[2].price = 2
    /\ Len(product_performance) = 1
    /\ product_performance[1].order_count = 1
    /\ product_performance[1].total_sales = 3

\* C9: order_values has exactly one row per order id of the fact table, its
\* order_value is the sum of the prices of the order's lines, and the
\* order_value of all rows adds up to the price of all fact rows.
C9_OrderValues ==
    Computed =>
        /\ Len(order_values) = Cardinality(OrdersOfFact)
        /\ \A o \in OrdersOfFact :
              \E i \in DOMAIN order_values :
                  /\ order_values[i].order_id = o
                  /\ order_values[i].order_value
                        = SumOver(full_data, "price", RowsOfOrder(o))
        /\ ColumnSum(order_values, "order_value") = ColumnSum(full_data, "price")

\* three lines in two orders: two rows, one of them the sum of two lines
C9_Witness ==
    /\ Computed
    /\ Len(full_data) = 3
    /\ Len(order_values) = 2
    /\ order_values[1].order_value = 4
    /\ order_values[2].order_value = 1

\* how often row r occurs in a table
Occurrences(rows, r) == Cardinality({i \in DOMAIN rows : rows[i] = r})

\* the same rows, each as often, in any order
SameRows(a, b) ==
    /\ Len(a) = Len(b)
    /\ \A i \in DOMAIN a : Occurrences(a, a[i]) = Occurrences(b, a[i])

\* C10: after a second (and any later) run on the same input the store
\* holds the same four tables, row order aside, as after the first run,
\* which started from an empty store.
C10_Idempotent ==
    (pc = "done" /\ runs >= 2) =>
        \A t \in TableNames :
            /\ db[t].exists
            /\ first_run[t].exists
            /\ SameRows(db[t].rows, first_run[t].rows)

\* a second run has completed over a store whose four tables have rows
C10_Witness ==
    /\ pc = "done"
    /\ runs = 2
    /\ \A t \in TableNames : first_run[t].rows # <<>> /\ db[t].rows # <<>>
    /\ Len(db["monthly_revenue"].rows) = 2

(***************************************************************************)
(* The Olist script from its CSV files: read, convert, merge, compute,     *)
(* write.  A statement that raises ends the process.                       *)
(***************************************************************************)
MaxSourceRows == 2

\* a timestamp text that to_datetime cannot parse
Garbage == -2

OrdersRow(o, c, t) ==
    [order_id |-> o, customer_id |-> c, order_purchase_timestamp |-> t]
ItemRow(o, i, p) == [order_id |-> o, product_id |-> i, price |-> p]
CustomerRow(c, st) == [customer_id |-> c, customer_state |-> st]
ProductRow(i, k) == [product_id |-> i, product_category_name |-> k]

\* pd.to_datetime(cell, errors='coerce'): an unparsable text becomes NaT
ToDatetime(cell) == IF cell = Garbage THEN NaT ELSE cell

\* mutant of ConvertedOrders: the orders whose timestamp cannot be parsed
\* are dropped (dropna) instead of kept with NaT
ConvertedOrdersDropna(orders) ==
    SelectSeq(orders, LAMBDA r : r.order_purchase_timestamp # Garbage)

\* orders['order_purchase_timestamp'] = pd.to_datetime(..., errors='coerce')
ConvertedOrders(orders) ==
    [j \in DOMAIN orders |->
        [order_id |-> orders[j].order_id,
         customer_id |-> orders[j].customer_id,
         order_purchase_timestamp |-> ToDatetime(orders[j].order_purchase_timestamp)]]

\* mutant of LeftMerge: how='inner', a left row without a match is dropped
LeftMergeInner(l, r, on) ==
    Flatten([i \in DOMAIN l |->
                LET m == SortedSeq({j \in DOMAIN r : r[j][on] = l[i][on]})
                IN  [n \in DOMAIN m |-> <<i, m[n]>>]])

\* pd.merge(l, r, on=on, how='left') as pairs <<left index, right index>>:
\* every left row, in order, with every right row of the same key, and with
\* right index 0 when there is none
LeftMerge(l, r, on) ==
    Flatten([i \in DOMAIN l |->
                LET m == SortedSeq({j \in DOMAIN r : r[j][on] = l[i][on]})
                IN  IF m = <<>> THEN << <<i, 0>> >>
                    ELSE [n \in DOMAIN m |-> <<i, m[n]>>]])

\* orders_order_items = pd.merge(order_items, orders, on='order_id', how='left')
MergeOrders(items, orders) ==
    LET m == LeftMerge(items, orders, "order_id")
    IN  [n \in DOMAIN m |->
            LET l == items[m[n][1]]
                j == m[n][2]
            IN  [order_id |-> l.order_id,
                 product_id |-> l.product_id,
                 price |-> l.price,
                 customer_id |-> IF j = 0 THEN NoKey ELSE orders[j].customer_id,
                 order_purchase_timestamp |->
                     IF j = 0 THEN NaT ELSE orders[j].order_purchase_timestamp]]

\* pd.merge(orders_order_items, customers, on='customer_id', how='left')
MergeCustomers(frame, customers) ==
    LET m == LeftMerge(frame, customers, "customer_id")
    IN  [n \in DOMAIN m |->
            LET l == frame[m[n][1]]
                j == m[n][2]
            IN  [order_id |-> l.order_id,
                 product_id |-> l.product_id,
                 price |-> l.price,
                 customer_id |-> l.customer_id,
                 order_purchase_timestamp |-> l.order_purchase_timestamp,
                 customer_state |-> IF j = 0 THEN NoKey ELSE customers[j].customer_state]]

\* full_data = pd.merge(orders_order_items_customers, products, on='product_id', how='left')
MergeProducts(frame, products) ==
    LET m == LeftMerge(frame, products, "product_id")
    IN  [n \in DOMAIN m |->
            LET l == frame[m[n][1]]
                j == m[n][2]
            IN  [order_id |-> l.order_id,
                 product_id |-> l.product_id,
                 price |-> l.price,
                 customer_id |-> l.customer_id,
                 order_purchase_timestamp |-> l.order_purchase_timestamp,
                 customer_state |-> l.customer_state,
                 product_category_name |->
                     IF j = 0 THEN NoKey ELSE products[j].product_category_name]]

\* mutant of Statements: each table is written as soon as it is computed
StatementsWriteEarly ==
    <<"start", "loaded", "converted", "merged_orders", "merged_customers", "merged",
      "computed_monthly_revenue", "wrote_monthly_revenue",
      "computed_order_values", "wrote_order_values",
      "computed_customer_features", "wrote_customer_features",
      "computed", "wrote_product_performance", "done">>

\* the program points of the script in the order of its statements, each
\* named after the statement completed there ("computed": product_performance
\* and with it all four aggregates)
Statements ==
    <<"start", "loaded", "converted", "merged_orders", "merged_customers", "merged",
      "computed_monthly_revenue", "computed_order_values",
      "computed_customer_features", "computed",
      "wrote_monthly_revenue", "wrote_order_values",
      "wrote_customer_features", "wrote_product_performance", "done">>

Position(label) == CHOOSE i \in DOMAIN Statements : Statements[i] = label

\* the program point from which the statement ending at label runs
Before(label) == Statements[Position(label) - 1]

\* what is wrong with the files, and the statement that raises on it:
\* read_csv on a file that cannot be read, a merge on a missing key column,
\* the first aggregate that reads a missing column
DefectsAt(label) ==
    CASE label = "loaded" ->
            {"orders unreadable", "order_items unreadable",
             "customers unreadable", "products unreadable"}
      [] label = "merged_orders" -> {"no order_id"}
      [] label = "merged_customers" -> {"no customer_id"}
      [] label = "merged" -> {"no product_id"}
      [] label = "computed_monthly_revenue" ->
            {"no order_purchase_timestamp", "no price"}
      [] label = "computed" -> {"no product_category_name"}
      [] OTHER -> {}

Defects == UNION {DefectsAt(Statements[i]) : i \in DOMAIN Statements}

Raises(label) == sources.defect \in DefectsAt(label)

\* the statement ending at label has run: it completed or it raised
Goto(label) ==
    IF Raises(label)
    THEN pc' = "failed" /\ failed_at' = label
    ELSE pc' = label /\ failed_at' = failed_at

\* the value a statement leaves in a variable: unchanged when it raised
Assign(label, old, new) == IF Raises(label) THEN old ELSE new

\* lines 17-20: the four read_csv
ReadCsv ==
    /\ pc = Before("loaded")
    /\ Goto("loaded")
    /\ UNCHANGED <<full_data, monthly_revenue, order_values, customer_features,
                   product_performance, db, runs, first_run, sources, procs,
                   orders_table>>

\* lines 33-36: the timestamp column is converted if there is one; if not,
\* a warning is printed and the script goes on
ConvertDates ==
    /\ pc = Before("converted")
    /\ Goto("converted")
    /\ UNCHANGED <<full_data, monthly_revenue, order_values, customer_features,
                   product_performance, db, runs, first_run, sources, procs,
                   orders_table>>

\* line 46
MergeWithOrders ==
    /\ pc = Before("merged_orders")
    /\ Goto("merged_orders")
    /\ full_data' = Assign("merged_orders", full_data,
                        MergeOrders(sources.order_items, ConvertedOrders(sources.orders)))
    /\ UNCHANGED <<monthly_revenue, order_values, customer_features,
                   product_performance, db, runs, first_run, sources, procs,
                   orders_table>>

\* line 49
MergeWithCustomers ==
    /\ pc = Before("merged_customers")
    /\ Goto("merged_customers")
    /\ full_data' = Assign("merged_customers", full_data,
                        MergeCustomers(full_data, sources.customers))
    /\ UNCHANGED <<monthly_revenue, order_values, customer_features,
                   product_performance, db, runs, first_run, sources, procs,
                   orders_table>>

\* line 52
MergeWithProducts ==
    /\ pc = Before("merged")
    /\ Goto("merged")
    /\ full_data' = Assign("merged", full_data,
                        MergeProducts(full_data, sources.products))
    /\ UNCHANGED <<monthly_revenue, order_values, customer_features,
                   product_performance, db, runs, first_run, sources, procs,
                   orders_table>>

\* lines 62-71
ComputeMonthlyRevenue ==
    /\ pc = Before("computed_monthly_revenue")
    /\ Goto("computed_monthly_revenue")
    /\ monthly_revenue' = Assign("computed_monthly_revenue", monthly_revenue,
                              MonthlyRevenue(full_data))
    /\ UNCHANGED <<full_data, order_values, customer_features,
                   product_performance, db, runs, first_run, sources, procs,
                   orders_table>>

\* line 78
ComputeOrderValues ==
    /\ pc = Before("computed_order_values")
    /\ Goto("computed_order_values")
    /\ order_values' = Assign("computed_order_values", order_values,
                           OrderValues(full_data))
    /\ UNCHANGED <<full_data, monthly_revenue, customer_features,
                   product_performance, db, runs, first_run, sources, procs,
                   orders_table>>

\* lines 86-101
ComputeCustomerFeatures ==
    /\ pc = Before("computed_customer_features")
    /\ Goto("computed_customer_features")
    /\ customer_features' = Assign("computed_customer_features", customer_features,
                                CustomerFeatures(full_data))
    /\ UNCHANGED <<full_data, monthly_revenue, order_values,
                   product_performance, db, runs, first_run, sources, procs,
                   orders_table>>

\* lines 108-118
ComputeProductPerformance ==
    /\ pc = Before("computed")
    /\ Goto("computed")
    /\ product_performance' = Assign("computed", product_performance,
                                  ProductPerformance(full_data))
    /\ UNCHANGED <<full_data, monthly_revenue, order_values,
                   customer_features, db, runs, first_run, sources, procs,
                   orders_table>>

\* the rows to_sql stores for each table
SqlRows(t) ==
    CASE t = "monthly_revenue" -> SqlMonthlyRevenue(monthly_revenue)
      [] t = "order_values" -> order_values
      [] t = "customer_features" -> SqlCustomerFeatures(customer_features)
      [] t = "product_performance" -> product_performance

\* lines 131-134: one to_sql
Save(t, label) ==
    /\ pc = Before(label)
    /\ pc' = label
    /\ db' = [db EXCEPT ![t] = ToSql(@, SqlRows(t))]
    /\ UNCHANGED <<full_data, monthly_revenue, order_values, customer_features,
                   product_performance, runs, first_run, others>>

SaveMonthlyRevenue == Save("monthly_revenue", "wrote_monthly_revenue")
SaveOrderValues == Save("order_values", "wrote_order_values")
SaveCustomerFeatures == Save("customer_features", "wrote_customer_features")
SaveProductPerformance == Save("product_performance", "wrote_product_performance")

\* line 136
Finish ==
    /\ pc = Before("done")
    /\ pc' = "done"
    /\ runs' = runs + 1
    /\ first_run' = IF runs = 0 THEN db ELSE first_run
    /\ UNCHANGED <<full_data, monthly_revenue, order_values, customer_features,
                   product_performance, db, others>>

\* the store a complete run over the merged frame df leaves
StoreOf(df) ==
    [t \in TableNames |->
        ToSql(NoTable,
              CASE t = "monthly_revenue" -> SqlMonthlyRevenue(MonthlyRevenue(df))
                [] t = "order_values" -> OrderValues(df)
                [] t = "customer_features" -> SqlCustomerFeatures(CustomerFeatures(df))
                [] t = "product_performance" -> ProductPerformance(df))]

EmptyStore == [t \in TableNames |-> NoTable]

\* the store as a run over older files left it
OldStore == StoreOf(<<Row(3, 3, 3, Stamp(10, 0, 0), 2)>>)

SeqsUpTo(S, n) == UNION {[1..k -> S] : k \in 0..n}

GoodOrders ==
    <<OrdersRow(1, 1, Stamp(11, 0, 0)), OrdersRow(2, 2, Stamp(12, 0, 0))>>
GoodItems == <<ItemRow(1, 1, 1), ItemRow(2, 1, 2)>>
GoodCustomers == <<CustomerRow(1, 1), CustomerRow(2, 1)>>
GoodProducts == <<ProductRow(1, 1)>>

Files(o, i, c, p, d) ==
    [orders |-> o, order_items |-> i, customers |-> c, products |-> p, defect |-> d]

\* order lines against orders that are missing, repeated or have a
\* timestamp that cannot be parsed
OrdersInputs ==
    {Files(o, i, GoodCustomers, GoodProducts, "none") :
        o \in SeqsUpTo({OrdersRow(n, 1, t) :
                            n \in {1, 2}, t \in {Stamp(11, 0, 0), Garbage}},
                       MaxSourceRows),
        i \in SeqsUpTo({ItemRow(n, 1, p) : n \in {1, 2}, p \in {1, 2}},
                       MaxSourceRows)}

\* order lines against customers that are missing or repeated
CustomersInputs ==
    {Files(GoodOrders, i, c, GoodProducts, "none") :
        i \in SeqsUpTo({ItemRow(n, 1, p) : n \in {1, 2}, p \in {1, 2}},
                       MaxSourceRows),
        c \in SeqsUpTo({CustomerRow(1, 1), CustomerRow(1, 2), CustomerRow(2, 1)},
                       MaxSourceRows)}

\* order lines against products that are missing or repeated
ProductsInputs ==
    {Files(GoodOrders, i, GoodCustomers, p, "none") :
        i \in SeqsUpTo({ItemRow(1, n, q) : n \in {1, 2}, q \in {1, 2}},
                       MaxSourceRows),
        p \in SeqsUpTo({ProductRow(1, 1), ProductRow(1, 2), ProductRow(2, 1)},
                       MaxSourceRows)}

\* files that cannot be read or lack a column the script needs
DefectInputs ==
    {Files(GoodOrders, GoodItems, GoodCustomers, GoodProducts, d) : d \in Defects}

InitOlist ==
    /\ sources \in OrdersInputs \cup CustomersInputs \cup ProductsInputs
                    \cup DefectInputs
    /\ db \in {EmptyStore, OldStore}
    /\ first_run = db
    /\ runs = IF db = EmptyStore THEN 0 ELSE 1
    /\ full_data = <<>>
    /\ monthly_revenue = <<>>
    /\ order_values = <<>>
    /\ customer_features = <<>>
    /\ product_performance = <<>>
    /\ pc = "start"
    /\ failed_at = ""
    /\ procs = <<>>
    /\ orders_table = <<>>

NextOlist ==
    \/ ReadCsv
    \/ ConvertDates
    \/ MergeWithOrders
    \/ MergeWithCustomers
    \/ MergeWithProducts
    \/ ComputeMonthlyRevenue
    \/ ComputeOrderValues
    \/ ComputeCustomerFeatures
    \/ ComputeProductPerformance
    \/ SaveMonthlyRevenue
    \/ SaveOrderValues
    \/ SaveCustomerFeatures
    \/ SaveProductPerformance
    \/ Finish

SpecOlist == InitOlist /\ [][NextOlist]_vars

(***************************************************************************)
(* Properties of the Olist script                                          *)
(***************************************************************************)
\* full_data is the merged fact frame
FactReady ==
    pc \notin {"start", "loaded", "converted", "merged_orders", "merged_customers",
               "failed"}

\* the four aggregates of full_data are in memory
AllComputed ==
    /\ FactReady
    /\ monthly_revenue = MonthlyRevenue(full_data)
    /\ order_values = OrderValues(full_data)
    /\ customer_features = CustomerFeatures(full_data)
    /\ product_performance = ProductPerformance(full_data)

\* how often key k occurs in column on of table r
KeyCount(r, on, k) == Cardinality({j \in DOMAIN r : r[j][on] = k})

\* each join key occurs at most once in its right-hand table
RightKeysUnique ==
    /\ \A j \in DOMAIN sources.orders :
          KeyCount(sources.orders, "order_id", sources.orders[j].order_id) = 1
    /\ \A j \in DOMAIN sources.customers :
          KeyCount(sources.customers, "customer_id",
                   sources.customers[j].customer_id) = 1
    /\ \A j \in DOMAIN sources.products :
          KeyCount(sources.products, "product_id",
                   sources.products[j].product_id) = 1

\* line i of order_items meets a key that is repeated in a right-hand table
MeetsRepeatedKey(i) ==
    LET l == sources.order_items[i]
    IN  \/ KeyCount(sources.orders, "order_id", l.order_id) > 1
        \/ KeyCount(sources.products, "product_id", l.product_id) > 1
        \/ \E j \in DOMAIN sources.orders :
              /\ sources.orders[j].order_id = l.order_id
              /\ KeyCount(sources.customers, "customer_id",
                          sources.orders[j].customer_id) > 1

LinesOfOrder(o) ==
    {i \in DOMAIN sources.order_items : sources.order_items[i].order_id = o}
LinesOfCustomer(c) ==
    {i \in DOMAIN sources.order_items :
        \E j \in DOMAIN sources.orders :
            /\ sources.orders[j].order_id = sources.order_items[i].order_id
            /\ sources.orders[j].customer_id = c}

\* line i belongs to order row j, whose timestamp cannot be parsed
LineOfUnparsable(i, j) ==
    /\ sources.orders[j].order_id = sources.order_items[i].order_id
    /\ sources.orders[j].order_purchase_timestamp = Garbage

\* C16: a timestamp that cannot be parsed is not fatal: the run does not
\* fail, the cell is NaT, the line is in the fact table with its price and
\* customer, and its price is part of its order's order_value, its
\* customer's total_spent and its product's total_sales.
C16_UnparsableKept ==
    /\ sources.defect = "none" => pc # "failed"
    /\ (FactReady /\ RightKeysUnique) =>
          \A i \in DOMAIN sources.order_items :
              \A j \in DOMAIN sources.orders :
                  LineOfUnparsable(i, j) =>
                      /\ full_data[i].order_purchase_timestamp = NaT
                      /\ full_data[i].price = sources.order_items[i].price
                      /\ full_data[i].customer_id = sources.orders[j].customer_id
    /\ (pc = "done" /\ RightKeysUnique) =>
          \A i \in DOMAIN sources.order_items :
              \A j \in DOMAIN sources.orders :
                  LineOfUnparsable(i, j) =>
                      LET l == sources.order_items[i]
                          c == sources.orders[j].customer_id
                      IN  /\ \E n \in DOMAIN db["order_values"].rows :
                                /\ db["order_values"].rows[n].order_id = l.order_id
                                /\ db["order_values"].rows[n].order_value
                                      = SumOver(sources.order_items, "price",
                                                LinesOfOrder(l.order_id))
                          /\ \E n \in DOMAIN db["customer_features"].rows :
                                /\ db["customer_features"].rows[n].customer_id = c
                                /\ db["customer_features"].rows[n].total_spent
                                      = SumOver(sources.order_items, "price",
                                                LinesOfCustomer(c))
                          /\ full_data[i].product_category_name # NoKey =>
                                \E n \in DOMAIN db["product_performance"].rows :
                                  /\ db["product_performance"].rows[n].product_category_name
                                        = full_data[i].product_category_name
                                  /\ db["product_performance"].rows[n].total_sales
                                        = SumOver(full_data, "price",
                                            RowsOfProduct(full_data[i].product_category_name))

\* a complete run over two lines of price 2 and 1 of one order whose
\* timestamp cannot be parsed: order_value 3, no month of revenue
C16_Witness ==
    /\ pc = "done"
    /\ RightKeysUnique
    /\ Len(sources.order_items) = 2
    /\ \A i \in DOMAIN sources.order_items :
          \E j \in DOMAIN sources.orders : LineOfUnparsable(i, j)
    /\ db["order_values"].rows = <<[order_id |-> 1, order_value |-> 3]>>
    /\ db["product_performance"].rows
          = <<[product_category_name |-> 1, total_sales |-> 3, order_count |-> 1]>>
    /\ db["monthly_revenue"].rows = <<>>

\* C11: a run that fails on a file it cannot read or on a missing column
\* leaves all four tables of the store as they were, and the store changes
\* only once all four aggregates have been computed.
C11_AbortsBeforeWrite ==
    /\ pc = "failed" => db = first_run
    /\ db # first_run => AllComputed

\* a run over files without product_category_name fails at the last
\* aggregate, over a store that an earlier run filled
C11_Witness ==
    /\ pc = "failed"
    /\ failed_at = "computed"
    /\ sources.defect = "no product_category_name"
    /\ db = OldStore
    /\ customer_features # <<>>

(***************************************************************************)
(* to_sql over a sqlite3 connection, statement by statement, and a run     *)
(* that dies.  pandas looks the table up, drops it if it exists            *)
(* (if_exists='replace'), creates it and inserts the rows; the connection  *)
(* opens a transaction only for the INSERT, so DROP TABLE, CREATE TABLE    *)
(* and the INSERT are committed one by one.                                *)
(***************************************************************************)
WriteOrder ==
    <<"monthly_revenue", "order_values", "customer_features", "product_performance">>

\* the program points inside and after the to_sql of each table
Dropped ==
    [monthly_revenue |-> "dropped_monthly_revenue",
     order_values |-> "dropped_order_values",
     customer_features |-> "dropped_customer_features",
     product_performance |-> "dropped_product_performance"]
Created ==
    [monthly_revenue |-> "created_monthly_revenue",
     order_values |-> "created_order_values",
     customer_features |-> "created_customer_features",
     product_performance |-> "created_product_performance"]
Wrote ==
    [monthly_revenue |-> "wrote_monthly_revenue",
     order_values |-> "wrote_order_values",
     customer_features |-> "wrote_customer_features",
     product_performance |-> "wrote_product_performance"]

\* the program point before the to_sql of table t
StartOf(t) ==
    LET n == CHOOSE i \in DOMAIN WriteOrder : WriteOrder[i] = t
    IN  IF n = 1 THEN "computed" ELSE Wrote[WriteOrder[n - 1]]

EmptyTable == [exists |-> TRUE, rows |-> <<>>]

\* mutant of IfExists: if_exists='append'
IfExistsAppend == "append"

\* the if_exists argument of the four to_sql calls
IfExists == "replace"

\* SQLTable.create(): an existing table is dropped (replace) or kept
\* (append); a table that does not exist is created
BeginToSql(t) ==
    /\ pc = StartOf(t)
    /\ IF db[t].exists
       THEN IF IfExists = "replace"
            THEN db' = [db EXCEPT ![t] = NoTable] /\ pc' = Dropped[t]
            ELSE db' = db /\ pc' = Created[t]
       ELSE db' = [db EXCEPT ![t] = EmptyTable] /\ pc' = Created[t]
    /\ UNCHANGED <<full_data, monthly_revenue, order_values, customer_features,
                   product_performance, runs, first_run, others>>

\* CREATE TABLE after the DROP TABLE
CreateTable(t) ==
    /\ pc = Dropped[t]
    /\ db' = [db EXCEPT ![t] = EmptyTable]
    /\ pc' = Created[t]
    /\ UNCHANGED <<full_data, monthly_revenue, order_values, customer_features,
                   product_performance, runs, first_run, others>>

\* SQLTable.insert(): the frame's rows are added in one transaction
InsertRows(t) ==
    /\ pc = Created[t]
    /\ db' = [db EXCEPT ![t] = [exists |-> TRUE, rows |-> @.rows \o SqlRows(t)]]
    /\ pc' = Wrote[t]
    /\ UNCHANGED <<full_data, monthly_revenue, order_values, customer_features,
                   product_performance, runs, first_run, others>>

\* the process dies (it is killed, or a statement raises: the disk is full,
\* the database is locked); an open INSERT is rolled back, what was
\* committed stays.  Only one run fails: the next one is complete.
Crash ==
    /\ pc \notin {"done", "failed"}
    /\ failed_at = ""
    /\ failed_at' = pc
    /\ pc' = "failed"
    /\ monthly_revenue' = <<>>
    /\ order_values' = <<>>
    /\ customer_features' = <<>>
    /\ product_performance' = <<>>
    /\ UNCHANGED <<full_data, db, runs, first_run, sources, procs, orders_table>>

\* the script is started again after the failure, on the same input
Restart ==
    /\ pc = "failed"
    /\ pc' = "merged"
    /\ UNCHANGED <<full_data, monthly_revenue, order_values, customer_features,
                   product_performance, db, runs, first_run, others>>

\* merged frames of at most one line
CrashFrames == SeqsUpTo(RevenueRows \cup RecencyRows, 1)

\* a run over new data, on a store that is empty or that a run over older
\* data filled
InitCrash ==
    /\ full_data \in CrashFrames
    /\ db \in {EmptyStore, OldStore}
    /\ first_run = db
    /\ runs = IF db = EmptyStore THEN 0 ELSE 1
    /\ monthly_revenue = <<>>
    /\ order_values = <<>>
    /\ customer_features = <<>>
    /\ product_performance = <<>>
    /\ pc = "merged"
    /\ sources = <<>>
    /\ failed_at = ""
    /\ procs = <<>>
    /\ orders_table = <<>>

NextCrash ==
    \/ ComputeMetrics
    \/ \E t \in TableNames : BeginToSql(t)
    \/ \E t \in TableNames : CreateTable(t)
    \/ \E t \in TableNames : InsertRows(t)
    \/ Close
    \/ Crash
    \/ Restart

SpecCrash == InitCrash /\ [][NextCrash]_vars

\* C12: after a run that failed at any point, also between the writes, one
\* complete run on the same input leaves the store as a failure-free run
\* does: the four tables of the input and nothing else.
C12_RerunRepairs ==
    pc = "done" => db = StoreOf(full_data)

\* a run died inside the third to_sql, over a store filled by older data,
\* and the next run has completed
C12_Witness ==
    /\ pc = "done"
    /\ failed_at = "created_customer_features"
    /\ first_run = OldStore
    /\ full_data # <<>>
    /\ db = StoreOf(full_data)

\* table t holds the complete version the run computes
Fresh(t) == db[t] = StoreOf(full_data)[t]

\* C15: at every point of a run, and after a crash, each table is either
\* its complete prior version or the complete version of the run, never
\* missing, empty or half filled, and the fresh tables are a prefix of the
\* order monthly_revenue, order_values, customer_features,
\* product_performance.
C15_SlotsWhole ==
    /\ \A t \in TableNames : db[t] = first_run[t] \/ Fresh(t)
    /\ \A i, j \in DOMAIN WriteOrder :
          (i < j /\ Fresh(WriteOrder[j])) => Fresh(WriteOrder[i])

(***************************************************************************)
(* Two runs of the script at the same time, each a process with its own    *)
(* connection to the same database file.  Each statement of a to_sql is    *)
(* one step of its process; sqlite serialises the statements, nothing      *)
(* serialises the to_sql calls.                                            *)
(***************************************************************************)
\* the table t that a run over the merged frame df writes
TableOf(df, t) == StoreOf(df)[t]

\* process i moves to program point label
ProcGoto(i, label) == procs' = [procs EXCEPT ![i].pc = label]

\* lines 62-118 of process i
ProcCompute(i) ==
    /\ procs[i].pc = "merged"
    /\ ProcGoto(i, "computed")
    /\ UNCHANGED <<full_data, monthly_revenue, order_values, customer_features,
                   product_performance, db, pc, runs, first_run, sources,
                   failed_at, orders_table>>

\* SQLTable.create() of process i: DROP TABLE of an existing table, CREATE
\* TABLE of a missing one
ProcBeginToSql(i, t) ==
    /\ procs[i].pc = StartOf(t)
    /\ IF db[t].exists
       THEN db' = [db EXCEPT ![t] = NoTable] /\ ProcGoto(i, Dropped[t])
       ELSE db' = [db EXCEPT ![t] = EmptyTable] /\ ProcGoto(i, Created[t])
    /\ UNCHANGED <<full_data, monthly_revenue, order_values, customer_features,
                   product_performance, pc, runs, first_run, sources,
                   failed_at, orders_table>>

\* CREATE TABLE of process i after its DROP TABLE; sqlite raises "table
\* already exists" if the other run has created it meanwhile
ProcCreateTable(i, t) ==
    /\ procs[i].pc = Dropped[t]
    /\ IF db[t].exists
       THEN db' = db /\ ProcGoto(i, "failed")
       ELSE db' = [db EXCEPT ![t] = EmptyTable] /\ ProcGoto(i, Created[t])
    /\ UNCHANGED <<full_data, monthly_revenue, order_values, customer_features,
                   product_performance, pc, runs, first_run, sources,
                   failed_at, orders_table>>

\* INSERT of process i; sqlite raises "no such table" if the other run has
\* dropped it meanwhile
ProcInsertRows(i, t) ==
    /\ procs[i].pc = Created[t]
    /\ IF db[t].exists
       THEN /\ db' = [db EXCEPT ![t] =
                       [exists |-> TRUE,
                        rows |-> @.rows \o TableOf(procs[i].frame, t).rows]]
            /\ ProcGoto(i, Wrote[t])
       ELSE db' = db /\ ProcGoto(i, "failed")
    /\ UNCHANGED <<full_data, monthly_revenue, order_values, customer_features,
                   product_performance, pc, runs, first_run, sources,
                   failed_at, orders_table>>

\* conn.close() of process i
ProcClose(i) ==
    /\ procs[i].pc = "wrote_product_performance"
    /\ ProcGoto(i, "done")
    /\ UNCHANGED <<full_data, monthly_revenue, order_values, customer_features,
                   product_performance, db, pc, runs, first_run, sources,
                   failed_at, orders_table>>

\* the merged frames of the two runs: one line each, or none
ConcurrentFrames ==
    {<<>>,
     <<Row(1, 1, 1, Stamp(11, 0, 0), 1)>>,
     <<Row(2, 2, 2, Stamp(12, 0, 0), 1)>>}

InitConcurrent ==
    /\ procs \in {<<[pc |-> "merged", frame |-> a], [pc |-> "merged", frame |-> b]>> :
                     a \in ConcurrentFrames, b \in ConcurrentFrames \ {<<>>}}
    /\ procs[1].frame # procs[2].frame
    /\ db \in {EmptyStore, OldStore}
    /\ first_run = db
    /\ runs = IF db = EmptyStore THEN 0 ELSE 1
    /\ full_data = <<>>
    /\ monthly_revenue = <<>>
    /\ order_values = <<>>
    /\ customer_features = <<>>
    /\ product_performance = <<>>
    /\ pc = "concurrent"
    /\ sources = <<>>
    /\ failed_at = ""
    /\ orders_table = <<>>

NextConcurrent ==
    \E i \in {1, 2} :
        \/ ProcCompute(i)
        \/ \E t \in TableNames : ProcBeginToSql(i, t)
        \/ \E t \in TableNames : ProcCreateTable(i, t)
        \/ \E t \in TableNames : ProcInsertRows(i, t)
        \/ ProcClose(i)

SpecConcurrent == InitConcurrent /\ [][NextConcurrent]_vars

\* C14: when two runs on the same store have both completed, each of the
\* four tables is exactly the table one of the runs wrote (the one that
\* replaced it last), never a mixture of the rows of both.
C14_LastWriterWins ==
    (\A i \in DOMAIN procs : procs[i].pc = "done") =>
        \A t \in TableNames :
            \E i \in DOMAIN procs : db[t] = TableOf(procs[i].frame, t)

(***************************************************************************)
(* load_data.py and clean_data.py on ecommerce.db: the orders file is      *)
(* loaded into the orders table, then the cleaning script reads the        *)
(* table, converts the timestamps, drops the rows without one and writes   *)
(* the table back.                                                         *)
(***************************************************************************)
MaxOrders == 6

\* clean_data.py line 8: SELECT * FROM orders LIMIT 5
SampleLimit == 5

\* pd.read_sql_query("SELECT * FROM orders LIMIT 5", conn)
ReadOrders(table) ==
    SubSeq(table, 1, IF Len(table) < SampleLimit THEN Len(table) ELSE SampleLimit)

\* pd.to_datetime without errors='coerce' raises on a text that is no date
StrictRaises(frame) ==
    \E j \in DOMAIN frame : frame[j].order_purchase_timestamp = Garbage

\* lines 14-17: the column is converted, or left as it is when the
\* conversion raises (the exception is caught and printed)
ConvertedSample(frame) ==
    IF StrictRaises(frame) THEN frame ELSE ConvertedOrders(frame)

\* orders.dropna(subset=['order_purchase_timestamp'])
DropMissing(frame) ==
    SelectSeq(frame, LAMBDA r : r.order_purchase_timestamp # NaT)

\* the cells of the timestamp column of the orders file: a date, no value,
\* a text that is no date
TimestampCells == {Stamp(11, 0, 0), NaT, Garbage}

\* the orders files: order n on line n
OrdersFiles ==
    UNION {{[n \in 1..k |-> OrdersRow(n, n, c[n])] : c \in [1..k -> TimestampCells]} :
           k \in 0..MaxOrders}

\* load_data.py line 18
LoadOrders ==
    /\ procs[1].pc = "load_data"
    /\ orders_table' = sources.orders
    /\ ProcGoto(1, "clean_data")
    /\ UNCHANGED <<full_data, monthly_revenue, order_values, customer_features,
                   product_performance, db, pc, runs, first_run, sources, failed_at>>

\* clean_data.py line 8
ReadSample ==
    /\ procs[1].pc = "clean_data"
    /\ procs' = <<[pc |-> "sampled", frame |-> ReadOrders(orders_table)]>>
    /\ UNCHANGED <<full_data, monthly_revenue, order_values, customer_features,
                   product_performance, db, pc, runs, first_run, sources,
                   failed_at, orders_table>>

\* clean_data.py lines 14-17
ConvertSample ==
    /\ procs[1].pc = "sampled"
    /\ procs' = <<[pc |-> "converted", frame |-> ConvertedSample(procs[1].frame)]>>
    /\ UNCHANGED <<full_data, monthly_revenue, order_values, customer_features,
                   product_performance, db, pc, runs, first_run, sources,
                   failed_at, orders_table>>

\* clean_data.py line 25
DropMissingRows ==
    /\ procs[1].pc = "converted"
    /\ procs' = <<[pc |-> "dropped", frame |-> DropMissing(procs[1].frame)]>>
    /\ UNCHANGED <<full_data, monthly_revenue, order_values, customer_features,
                   product_performance, db, pc, runs, first_run, sources,
                   failed_at, orders_table>>

\* clean_data.py lines 28-31
SaveOrders ==
    /\ procs[1].pc = "dropped"
    /\ orders_table' = procs[1].frame
    /\ ProcGoto(1, "done")
    /\ UNCHANGED <<full_data, monthly_revenue, order_values, customer_features,
                   product_performance, db, pc, runs, first_run, sources, failed_at>>

InitClean ==
    /\ sources \in {Files(o, <<>>, <<>>, <<>>, {}) : o \in OrdersFiles}
    /\ orders_table = <<>>
    /\ procs = <<[pc |-> "load_data", frame |-> <<>>]>>
    /\ full_data = <<>>
    /\ monthly_revenue = <<>>
    /\ order_values = <<>>
    /\ customer_features = <<>>
    /\ product_performance = <<>>
    /\ db = EmptyStore
    /\ first_run = EmptyStore
    /\ runs = 0
    /\ pc = "clean_data.py"
    /\ failed_at = ""

NextClean ==
    \/ LoadOrders
    \/ ReadSample
    \/ ConvertSample
    \/ DropMissingRows
    \/ SaveOrders

SpecClean == InitClean /\ [][NextClean]_vars

\* the orders table as load_data.py stored it, before the cleaning
StoredOrders == sources.orders

\* C17: the cleaning script only removes orders without a purchase
\* timestamp: every row of the stored orders table with a non-missing
\* timestamp is still in the table after the script, whatever the table's
\* size.
C17_OnlyMissingRemoved ==
    procs[1].pc = "done" =>
        \A j \in DOMAIN StoredOrders :
            StoredOrders[j].order_purchase_timestamp # NaT =>
                \E k \in DOMAIN orders_table :
                    orders_table[k].order_id = StoredOrders[j].order_id

====
